---- MODULE Spec2Model ----
(***************************************************************************)
(* Model of edgefxn.py: the script that resolves a release version         *)
(* (--version, or the latest release tag) and downloads the seven          *)
(* prebuilt Function libraries from the CDN into Packages/ai.fxn.fxn3d/    *)
(* Plugins, one after the other.                                           *)
(*                                                                         *)
(* Text is modelled as a sequence of tokens, so that an f-string is a real *)
(* concatenation; "/" is a token of its own.  A path is the sequence of    *)
(* its components.  File contents are token sequences too.                 *)
(***************************************************************************)
EXTENDS Integers, Sequences, FiniteSets, TLC

VARIABLES
    args_version,  \* args.version as parsed from the command line
    pc,            \* position in the script
    version,       \* local `version` of main
    libs,          \* local `LIBS` of main
    i,             \* position of the for loop in LIBS (0: loop not entered)
    response,      \* local `response` of the function being executed
    http,          \* every get() call made, in order, with what it returned
    dirs,          \* filesystem: the directories that exist
    files,         \* filesystem: path -> contents, for the files that exist
    stdout,        \* lines printed
    error,         \* the exception that ended the run, if any
    exit,          \* exit status of the process (-1 while running)
    fs0            \* the files as they were before the run

vars == << args_version, pc, version, libs, i, response, http, dirs, files,
           stdout, error, exit, fs0 >>

-----------------------------------------------------------------------------
(* Bounds of the model *)

\* longest version string / release tag, in tokens
MaxVerLen == 2
\* how many destinations start out in another state than "directory there,
\* file not there" (directory missing, or an older file present)
MaxPre == 1

Alphabet == {"v", "1"}

RECURSIVE StringsUpTo(_)
StringsUpTo(n) ==
    IF n = 0 THEN {<< >>}
    ELSE LET S == StringsUpTo(n - 1)
         IN  S \cup {Append(s, c) : s \in {t \in S : Len(t) = n - 1}, c \in Alphabet}

Versions == StringsUpTo(MaxVerLen)

\* Python's None; no string over Alphabet equals it
None == << "None" >>

\* statuses a server may answer with; 0 stands for "no response at all"
\* (get() itself raises)
Statuses == {200, 404, 500}
NoResponse == 0

-----------------------------------------------------------------------------
(* Values *)

Slash == "/"

LATEST_URL ==
    << "https:", Slash, Slash, "api.github.com", Slash, "repos", Slash, "fxnai",
       Slash, "fxnc", Slash, "releases", Slash, "latest" >>

CDN_BASE == << "https:", Slash, Slash, "cdn.fxn.ai", Slash, "edgefxn", Slash >>

LIB_PATH_BASE == << "Packages", "ai.fxn.fxn3d", "Plugins" >>

\* f"https://cdn.fxn.ai/edgefxn/{version}/<name>"
CdnUrl(v, name) == CDN_BASE \o v \o << Slash, name >>

LIBS_C6Mutant(v) ==
    << [url  |-> CdnUrl(v, "libFunction-android-arm64-v8a.so"),
        path |-> LIB_PATH_BASE \o << "Android", "arm64-v8a", "libFunction.so" >>],
       [url  |-> CdnUrl(v, "libFunction-android-armeabi-v7a.so"),
        path |-> LIB_PATH_BASE \o << "Android", "armeabi-v7a", "libFunction.so" >>],
       [url  |-> CdnUrl(v, "libFunction-android-x86.so"),
        path |-> LIB_PATH_BASE \o << "Android", "x86", "libFunction.so" >>],
       [url  |-> CdnUrl(v, "libFunction-android-x86_64.so"),
        path |-> LIB_PATH_BASE \o << "Android", "x86_64", "libFunction.so" >>],
       [url  |-> CdnUrl(v, "Function-macos.dylib"),
        path |-> LIB_PATH_BASE \o << "macOS", "Function.dylib" >>],
       [url  |-> CdnUrl(v, "Function.wasm"),
        path |-> LIB_PATH_BASE \o << "Web", "libFunction.so" >>],
       [url  |-> CdnUrl(<< "latest" >>, "Function-win64.dll"),
        path |-> LIB_PATH_BASE \o << "Windows", "Function.dll" >>] >>

LIBS_C9Mutant(v) ==
    << [url  |-> CdnUrl(v, "libFunction-android-arm64-v8a.so"),
        path |-> LIB_PATH_BASE \o << "Android", "arm64-v8a", "libFunction.so" >>],
       [url  |-> CdnUrl(v, "libFunction-android-armeabi-v7a.so"),
        path |-> LIB_PATH_BASE \o << "Android", "armeabi-v7a", "libFunction.so" >>],
       [url  |-> CdnUrl(v, "libFunction-android-x86.so"),
        path |-> LIB_PATH_BASE \o << "Android", "x86", "libFunction.so" >>],
       [url  |-> CdnUrl(v, "libFunction-android-x86_64.so"),
        path |-> LIB_PATH_BASE \o << "Android", "x86_64", "libFunction.so" >>],
       [url  |-> CdnUrl(v, "Function-macos.dylib"),
        path |-> LIB_PATH_BASE \o << "macOS", "Function.dylib" >>],
       [url  |-> CdnUrl(v, "Function.wasm"),
        path |-> LIB_PATH_BASE \o << "Android", "x86_64", "libFunction.so" >>],
       [url  |-> CdnUrl(v, "Function-win64.dll"),
        path |-> LIB_PATH_BASE \o << "Windows", "Function.dll" >>] >>

\* the list LIBS built in main from `version`
LIBS(v) ==
    << [url  |-> CdnUrl(v, "libFunction-android-arm64-v8a.so"),
        path |-> LIB_PATH_BASE \o << "Android", "arm64-v8a", "libFunction.so" >>],
       [url  |-> CdnUrl(v, "libFunction-android-armeabi-v7a.so"),
        path |-> LIB_PATH_BASE \o << "Android", "armeabi-v7a", "libFunction.so" >>],
       [url  |-> CdnUrl(v, "libFunction-android-x86.so"),
        path |-> LIB_PATH_BASE \o << "Android", "x86", "libFunction.so" >>],
       [url  |-> CdnUrl(v, "libFunction-android-x86_64.so"),
        path |-> LIB_PATH_BASE \o << "Android", "x86_64", "libFunction.so" >>],
       [url  |-> CdnUrl(v, "Function-macos.dylib"),
        path |-> LIB_PATH_BASE \o << "macOS", "Function.dylib" >>],
       [url  |-> CdnUrl(v, "Function.wasm"),
        path |-> LIB_PATH_BASE \o << "Web", "libFunction.so" >>],
       [url  |-> CdnUrl(v, "Function-win64.dll"),
        path |-> LIB_PATH_BASE \o << "Windows", "Function.dll" >>] >>

\* `args.version if args.version else ...`: None and "" are falsy
Truthy(s) == s # None /\ Len(s) > 0

\* Response.raise_for_status raises HTTPError for 4xx and 5xx
RaisesForStatus(status) == 400 <= status /\ status < 600

\* f"Wrote {url} to path: {path}"
Notice(url, path) == << "Wrote " >> \o url \o << " to path: " >> \o path

Parent(path) == SubSeq(path, 1, Len(path) - 1)

\* what the CDN serves at a URL: contents that differ from URL to URL
Body(url) == << "bytes of " >> \o url

\* contents of a file that was there before the run
Old == << "older bytes" >>

\* a file opened with "wb" and not written yet
Empty == << >>

\* reading a path that holds no file
Absent == << "ENOENT" >>
FileAt(fs, path) == IF path \in DOMAIN fs THEN fs[path] ELSE Absent

\* the JSON documents the releases endpoint may answer with
Releases ==
    {[json |-> FALSE, doc |-> << >>], [json |-> TRUE, doc |-> << >>]}
    \cup {[json |-> TRUE, doc |-> [k \in {"tag_name"} |-> t]] : t \in Versions}

DestPaths == {LIBS(<< >>)[k].path : k \in 1..Len(LIBS(<< >>))}
DestDirs  == {Parent(p) : p \in DestPaths}

-----------------------------------------------------------------------------
(* Initial state: a command line and a filesystem *)

Init ==
    /\ args_version \in {None} \cup Versions
    /\ pc = "main"
    /\ version = None
    /\ libs = << >>
    /\ i = 0
    /\ response = [status |-> NoResponse, body |-> << >>]
    /\ http = << >>
    /\ \E missing \in SUBSET DestDirs :
         \E old \in SUBSET {p \in DestPaths : Parent(p) \notin missing} :
            /\ Cardinality(missing) + Cardinality(old) <= MaxPre
            /\ dirs = DestDirs \ missing
            /\ files = [p \in old |-> Old]
    /\ stdout = << >>
    /\ error = "none"
    /\ exit = -1
    /\ fs0 = files

-----------------------------------------------------------------------------
(* An exception nobody catches leaves main(), and the interpreter ends the *)
(* process with status 1 *)

Raise_C7Mutant(e) ==
    /\ pc' = "raised"
    /\ error' = e
    /\ exit' = 0

Raise(e) ==
    /\ pc' = "raised"
    /\ error' = e
    /\ exit' = 1

Running == UNCHANGED << error, exit >>

\* the file at `path` now holds `contents`; every other file is as it was
WriteFile(fs, path, contents) ==
    [p \in DOMAIN fs \cup {path} |-> IF p = path THEN contents ELSE fs[p]]

-----------------------------------------------------------------------------
(* main: the version *)

main_version_C3Mutant ==
    /\ pc = "main"
    /\ pc' = "latest_get"
    /\ Running
    /\ UNCHANGED << args_version, version, libs, i, response, http, dirs, files,
                    stdout, fs0 >>

\* version = args.version if args.version else _get_latest_version()
main_version ==
    /\ pc = "main"
    /\ IF Truthy(args_version)
         THEN /\ version' = args_version
              /\ pc' = "build"
         ELSE /\ pc' = "latest_get"
              /\ UNCHANGED version
    /\ Running
    /\ UNCHANGED << args_version, libs, i, response, http, dirs, files, stdout, fs0 >>

\* response = get(".../releases/latest")
get_latest_version_get ==
    /\ pc = "latest_get"
    /\ \E status \in Statuses \cup {NoResponse}, release \in Releases :
         LET body == IF status = NoResponse THEN << >> ELSE release
         IN  /\ http' = Append(http, [url |-> LATEST_URL, status |-> status,
                                      body |-> body])
             /\ IF status = NoResponse
                  THEN /\ Raise("ConnectionError")
                       /\ UNCHANGED response
                  ELSE /\ response' = [status |-> status, body |-> body]
                       /\ pc' = "latest_status"
                       /\ Running
    /\ UNCHANGED << args_version, version, libs, i, dirs, files, stdout, fs0 >>

\* response.raise_for_status()
get_latest_version_raise_for_status ==
    /\ pc = "latest_status"
    /\ IF RaisesForStatus(response.status)
         THEN Raise("HTTPError")
         ELSE pc' = "latest_json" /\ Running
    /\ UNCHANGED << args_version, version, libs, i, response, http, dirs, files,
                    stdout, fs0 >>

\* release = response.json()
get_latest_version_json ==
    /\ pc = "latest_json"
    /\ IF response.body.json
         THEN pc' = "latest_return" /\ Running
         ELSE Raise("JSONDecodeError")
    /\ UNCHANGED << args_version, version, libs, i, response, http, dirs, files,
                    stdout, fs0 >>

get_latest_version_return_C4Mutant ==
    /\ pc = "latest_return"
    /\ IF "tag_name" \in DOMAIN response.body.doc
         THEN LET tag == response.body.doc["tag_name"]
              IN  /\ version' = IF tag # << >> /\ Head(tag) = "v" THEN Tail(tag) ELSE tag
                  /\ pc' = "build"
                  /\ Running
         ELSE /\ Raise("KeyError")
              /\ UNCHANGED version
    /\ UNCHANGED << args_version, libs, i, response, http, dirs, files, stdout, fs0 >>

get_latest_version_return_C10Mutant ==
    /\ pc = "latest_return"
    /\ version' = IF "tag_name" \in DOMAIN response.body.doc
                    THEN response.body.doc["tag_name"]
                    ELSE << "latest" >>
    /\ pc' = "build"
    /\ Running
    /\ UNCHANGED << args_version, libs, i, response, http, dirs, files, stdout, fs0 >>

\* return release["tag_name"], assigned to `version` in main
get_latest_version_return ==
    /\ pc = "latest_return"
    /\ IF "tag_name" \in DOMAIN response.body.doc
         THEN /\ version' = response.body.doc["tag_name"]
              /\ pc' = "build"
              /\ Running
         ELSE /\ Raise("KeyError")
              /\ UNCHANGED version
    /\ UNCHANGED << args_version, libs, i, response, http, dirs, files, stdout, fs0 >>

-----------------------------------------------------------------------------
(* main: the list and the loop *)

\* LIBS = [ ... ]
main_LIBS ==
    /\ pc = "build"
    /\ libs' = LIBS(version)
    /\ pc' = "for"
    /\ Running
    /\ UNCHANGED << args_version, version, i, response, http, dirs, files, stdout, fs0 >>

main_for_C2Mutant ==
    /\ pc = "for"
    /\ IF i < Len(libs)
         THEN /\ i' = IF i = 0 THEN 2 ELSE i + 1
              /\ pc' = "dl_get"
              /\ Running
         ELSE /\ pc' = "done"
              /\ exit' = 0
              /\ UNCHANGED << i, error >>
    /\ UNCHANGED << args_version, version, libs, response, http, dirs, files,
                    stdout, fs0 >>

\* for lib in LIBS: the next element, or the end of main and of the process
main_for ==
    /\ pc = "for"
    /\ IF i < Len(libs)
         THEN /\ i' = i + 1
              /\ pc' = "dl_get"
              /\ Running
         ELSE /\ pc' = "done"
              /\ exit' = 0
              /\ UNCHANGED << i, error >>
    /\ UNCHANGED << args_version, version, libs, response, http, dirs, files,
                    stdout, fs0 >>

-----------------------------------------------------------------------------
(* _download_fxnc(lib["url"], lib["path"]) *)

\* response = get(url)
download_fxnc_get ==
    /\ pc = "dl_get"
    /\ \E status \in Statuses \cup {NoResponse} :
         LET url  == libs[i].url
             body == IF status = NoResponse THEN << >>
                     ELSE IF RaisesForStatus(status) THEN << "error page" >>
                     ELSE Body(url)
         IN  /\ http' = Append(http, [url |-> url, status |-> status, body |-> body])
             /\ IF status = NoResponse
                  THEN /\ Raise("ConnectionError")
                       /\ UNCHANGED response
                  ELSE /\ response' = [status |-> status, body |-> body]
                       /\ pc' = "dl_status"
                       /\ Running
    /\ UNCHANGED << args_version, version, libs, i, dirs, files, stdout, fs0 >>

download_fxnc_raise_for_status_C1Mutant ==
    /\ pc = "dl_status"
    /\ pc' = "dl_open"
    /\ Running
    /\ UNCHANGED << args_version, version, libs, i, response, http, dirs, files,
                    stdout, fs0 >>

download_fxnc_raise_for_status_C8Mutant ==
    /\ pc = "dl_status"
    /\ IF RaisesForStatus(response.status)
         THEN /\ Raise("HTTPError")
              /\ files' = IF Parent(libs[i].path) \in dirs
                            THEN WriteFile(files, libs[i].path, Empty)
                            ELSE files
         ELSE /\ pc' = "dl_open"
              /\ Running
              /\ UNCHANGED files
    /\ UNCHANGED << args_version, version, libs, i, response, http, dirs,
                    stdout, fs0 >>

\* response.raise_for_status()
download_fxnc_raise_for_status ==
    /\ pc = "dl_status"
    /\ IF RaisesForStatus(response.status)
         THEN Raise("HTTPError")
         ELSE pc' = "dl_open" /\ Running
    /\ UNCHANGED << args_version, version, libs, i, response, http, dirs, files,
                    stdout, fs0 >>

\* open(path, "wb"): creates or truncates the file; the directory must exist
download_fxnc_open ==
    /\ pc = "dl_open"
    /\ IF Parent(libs[i].path) \in dirs
         THEN /\ files' = WriteFile(files, libs[i].path, Empty)
              /\ pc' = "dl_write"
              /\ Running
         ELSE /\ Raise("FileNotFoundError")
              /\ UNCHANGED files
    /\ UNCHANGED << args_version, version, libs, i, response, http, dirs, stdout, fs0 >>

\* f.write(response.content), and the file is closed
download_fxnc_write ==
    /\ pc = "dl_write"
    /\ files' = WriteFile(files, libs[i].path, response.body)
    /\ pc' = "dl_print"
    /\ Running
    /\ UNCHANGED << args_version, version, libs, i, response, http, dirs, stdout, fs0 >>

\* print(f"Wrote {url} to path: {path}"), and back to the loop
download_fxnc_print ==
    /\ pc = "dl_print"
    /\ stdout' = Append(stdout, Notice(libs[i].url, libs[i].path))
    /\ pc' = "for"
    /\ Running
    /\ UNCHANGED << args_version, version, libs, i, response, http, dirs, files, fs0 >>

-----------------------------------------------------------------------------

Next ==
    \/ main_version
    \/ get_latest_version_get
    \/ get_latest_version_raise_for_status
    \/ get_latest_version_json
    \/ get_latest_version_return
    \/ main_LIBS
    \/ main_for
    \/ download_fxnc_get
    \/ download_fxnc_raise_for_status
    \/ download_fxnc_open
    \/ download_fxnc_write
    \/ download_fxnc_print

Spec == Init /\ [][Next]_vars

-----------------------------------------------------------------------------
(* Vocabulary of the properties *)

\* the get() calls made to the CDN and to the releases endpoint, in order
CdnCalls  == SelectSeq(http, LAMBDA r : r.url # LATEST_URL)
MetaCalls == SelectSeq(http, LAMBDA r : r.url = LATEST_URL)

Answered(status)   == status # NoResponse
Success(status)    == 200 <= status /\ status < 300
NonSuccess(status) == Answered(status) /\ ~Success(status)

Ended == pc \in {"done", "raised"}

\* a URL cut at its slashes
RECURSIVE Segments(_)
Segments(s) ==
    IF \A n \in 1..Len(s) : s[n] # Slash THEN << s >>
    ELSE LET n == CHOOSE n \in 1..Len(s) :
                     s[n] = Slash /\ \A m \in 1..(n - 1) : s[m] # Slash
         IN  << SubSeq(s, 1, n - 1) >> \o Segments(SubSeq(s, n + 1, Len(s)))

\* the path segment that follows the segment "edgefxn"
SegmentAfterEdgefxn(url) ==
    LET segs == Segments(url)
        n    == CHOOSE n \in 1..Len(segs) : segs[n] = << "edgefxn" >>
    IN  segs[n + 1]

LastSegment(url) == Segments(url)[Len(Segments(url))]

Unchanged(path) == FileAt(files, path) = FileAt(fs0, path)

ManifestOrder ==
    << << "Android", "arm64-v8a" >>, << "Android", "armeabi-v7a" >>,
       << "Android", "x86" >>, << "Android", "x86_64" >>,
       << "macOS" >>, << "Web" >>, << "Windows" >> >>

\* the releases endpoint was asked and what came back gives no version
MetaFailed ==
    /\ Len(http) >= 1
    /\ http[1].url = LATEST_URL
    /\ IF ~Answered(http[1].status) THEN TRUE
       ELSE \/ NonSuccess(http[1].status)
            \/ ~http[1].body.json
            \/ "tag_name" \notin DOMAIN http[1].body.doc

-----------------------------------------------------------------------------
C2_InOrderOneAtATime ==
    LET n == Len(CdnCalls)
        m == Len(stdout)
    IN  /\ n <= Len(libs)
        /\ m <= n /\ n <= m + 1
        /\ \A k \in 1..n :
              /\ CdnCalls[k].url = libs[k].url
              /\ SubSeq(libs[k].path, Len(LIB_PATH_BASE) + 1, Len(libs[k].path) - 1)
                    = ManifestOrder[k]
        /\ \A k \in 1..m :
              /\ Success(CdnCalls[k].status)
              /\ FileAt(files, libs[k].path) = CdnCalls[k].body
              /\ stdout[k] = Notice(libs[k].url, libs[k].path)
        /\ \A k \in (n + 1)..Len(libs) : Unchanged(libs[k].path)

C2_Witness ==
    /\ pc = "dl_status"
    /\ i = 4
    /\ Len(stdout) = 3
    /\ Len(CdnCalls) = 4

(* C3: with a non-empty --version, `version` is that string, the releases  *)
(* endpoint is never called, and every HTTP call is one of the seven CDN   *)
(* URLs of that version.                                                   *)
C3_ExplicitVersionNoMetadata ==
    Truthy(args_version) =>
        /\ pc # "main" => version = args_version
        /\ \A n \in 1..Len(http) :
              /\ http[n].url # LATEST_URL
              /\ SegmentAfterEdgefxn(http[n].url) = args_version
              /\ \E k \in 1..Len(libs) : http[n].url = libs[k].url

C3_Witness ==
    /\ Truthy(args_version)
    /\ pc = "done"
    /\ Len(http) = 7

(* C4: without --version (or with an empty one) the releases endpoint is   *)
(* called exactly once, as the first HTTP call of the run, and the version *)
(* in every one of the seven URLs is the tag_name of its answer.           *)
C4_OneMetadataRequestTagVerbatim ==
    ~Truthy(args_version) =>
        /\ Len(MetaCalls) <= 1
        /\ pc \notin {"main", "latest_get"} =>
              /\ Len(MetaCalls) = 1
              /\ http[1].url = LATEST_URL
        /\ libs # << >> =>
              /\ Len(libs) = 7
              /\ \A k \in 1..Len(libs) :
                    SegmentAfterEdgefxn(libs[k].url) = http[1].body.doc["tag_name"]

C4_Witness ==
    /\ args_version = << >>
    /\ pc = "done"
    /\ Len(http) = 8
    /\ version = << "v", "1" >>

(* C5: a download that got a success status has, once it is over, left its *)
(* body in the file at its path.                                           *)
C5_SuccessfulResponseIsWritten ==
    \A k \in 1..Len(CdnCalls) :
        (Success(CdnCalls[k].status) /\ (k < i \/ Ended)) =>
            FileAt(files, libs[k].path) = CdnCalls[k].body

(* C6: the manifest main has just built has seven targets; in each URL the *)
(* segment after "edgefxn" is the version; the file names, their order and *)
(* the paths, all under Packages/ai.fxn.fxn3d/Plugins, are those of the    *)
(* manifest of every other version.                                        *)
C6_Manifest ==
    (pc = "for" /\ i = 0) =>
        /\ Len(libs) = 7
        /\ \A k \in 1..Len(libs) :
              /\ SegmentAfterEdgefxn(libs[k].url) = version
              /\ Len(Segments(libs[k].url)) = 6
              /\ SubSeq(libs[k].path, 1, 3) = << "Packages", "ai.fxn.fxn3d", "Plugins" >>
        /\ \A v \in Versions :
              LET other == LIBS(v)
              IN  /\ Len(other) = Len(libs)
                  /\ \A k \in 1..Len(libs) :
                        /\ other[k].path = libs[k].path
                        /\ LastSegment(other[k].url) = LastSegment(libs[k].url)
                        /\ SegmentAfterEdgefxn(other[k].url) = v

C6_Witness ==
    /\ pc = "for"
    /\ i = 0
    /\ version = << "v", "1" >>
    /\ LastSegment(libs[7].url) = << "Function-win64.dll" >>

C8_FilesAfterFailedDownload ==
    (/\ pc = "raised"
     /\ i >= 1
     /\ Len(CdnCalls) = i
     /\ NonSuccess(CdnCalls[i].status)) =>
        /\ \A j \in 1..(i - 1) : FileAt(files, libs[j].path) = CdnCalls[j].body
        /\ \A j \in 1..(i - 1) : CdnCalls[j].body = Body(libs[j].url)
        /\ \A j \in i..Len(libs) : Unchanged(libs[j].path)

C8_Witness ==
    /\ pc = "raised"
    /\ error = "HTTPError"
    /\ i = 3
    /\ libs[3].path \in DOMAIN fs0
    /\ FileAt(files, libs[3].path) = Old
    /\ FileAt(files, libs[2].path) = Body(libs[2].url)

(* C9: after a run that ends normally every one of the seven paths holds   *)
(* the body served at its own URL, and the seven paths are pairwise        *)
(* distinct.                                                               *)
C9_EachPathHoldsItsOwnBody ==
    pc = "done" =>
        /\ \A k \in 1..Len(libs) :
              /\ FileAt(files, libs[k].path) = Body(libs[k].url)
              /\ CdnCalls[k].url = libs[k].url
              /\ CdnCalls[k].body = Body(libs[k].url)
        /\ \A j, k \in 1..Len(libs) : j # k => libs[j].path # libs[k].path

C9_Witness ==
    /\ pc = "done"
    /\ Len(libs) = 7
    /\ libs[6].path \in DOMAIN fs0
    /\ files[libs[6].path] # fs0[libs[6].path]

====
